---- MODULE Spec2Model ----
(***************************************************************************)
(* The generation flow of the four page components of the repository:      *)
(*   AIWritingStudio   src/unnamed/part_003                                 *)
(*   EssayGenerator    src/unnamed/part_001                                 *)
(*   EssayWriter       src/Frontend/app/page.tsx                            *)
(*   EssayWriter       src/unnamed/part_002 (lines 1-107, the basic page)   *)
(* One of them is mounted; its React state, the requests it has in flight  *)
(* and the position of each suspended handler are the state of the model.  *)
(***************************************************************************)
EXTENDS Integers, Sequences, FiniteSets, TLC

VARIABLES
    comp,       \* the component that is mounted
    tool,       \* useState<WritingTool>('essay')
    topic,      \* useState('')
    tone,       \* useState<Tone>('academic')
    lengthKey,  \* useState<LengthKey>('medium') / useState('medium')
    content,    \* content / essay
    wordCount,  \* useState(0)
    toolUsed,   \* useState<WritingTool | null>(null)
    sources,    \* EssayGenerator: useState<string[]>([])
    result,     \* EssayWriter: useState<any>(null), <<>> for null
    loading,    \* useState(false)
    error,      \* useState('')
    pending,    \* the suspended handler invocations (requests in flight), oldest first
    alerts,     \* whether an alert() dialog has been shown
    copied,     \* useState(false): the "copied" mark on the copy button
    outcome,    \* how the most recent request settled (history)
    effects     \* what the last step did outside the component (history)

vars == <<comp, tool, topic, tone, lengthKey, content, wordCount, toolUsed,
          sources, result, loading, error, pending, alerts, copied, outcome, effects>>

selection == <<tool, topic, tone, lengthKey>>
payload   == <<content, wordCount, toolUsed, sources, result, error>>

-----------------------------------------------------------------------------
(* Bounds of the model *)

\* how many of the tools of TOOL_CONFIG (in key order) the user clicks
NumTools == 2

-----------------------------------------------------------------------------
(* JavaScript values *)

\* undefined (a field the response lacks), as a string and as a number
Undefined == "undefined"
NumUndefined == -1
\* null
Null == "null"

\* v || fallback, on strings and on numbers
Truthy(v) == v # "" /\ v # Undefined /\ v # Null
NumTruthy(n) == n # 0 /\ n # NumUndefined

(* A string the code measures or trims is held as its runs: <<[ch, n], ...>>  *)
(* is n times ch, and so on; adjacent runs differ in ch and every n >= 1.     *)
Run(c, k) == [ch |-> c, n |-> k]

WhiteSpace == {" ", "\n"}

RECURSIVE StrLen(_)
StrLen(s) == IF s = <<>> THEN 0 ELSE s[1].n + StrLen(Tail(s))

RECURSIVE TrimStart(_)
TrimStart(s) ==
    IF s = <<>> THEN <<>>
    ELSE IF s[1].ch \in WhiteSpace THEN TrimStart(Tail(s)) ELSE s

RECURSIVE TrimEnd(_)
TrimEnd(s) ==
    IF s = <<>> THEN <<>>
    ELSE IF s[Len(s)].ch \in WhiteSpace THEN TrimEnd(SubSeq(s, 1, Len(s) - 1)) ELSE s

\* String.prototype.trim
Trim(s) == TrimEnd(TrimStart(s))

\* !topic.trim()
Blank(s) == Trim(s) = <<>>

\* s.slice(0, k) and s.substring(0, k): the first k characters
RECURSIVE Slice(_, _)
Slice(s, k) ==
    IF s = <<>> \/ k <= 0 THEN <<>>
    ELSE IF s[1].n >= k THEN <<Run(s[1].ch, k)>>
    ELSE <<s[1]>> \o Slice(Tail(s), k - s[1].n)

(* A message built by a template literal is the sequence of its pieces. *)
EmptyMsg == <<>>
MsgTruthy(m) == \E i \in 1..Len(m) : m[i] # ""
Carries(m, piece) == \E i \in 1..Len(m) : m[i] = piece

-----------------------------------------------------------------------------
(* The tool registry *)

\* Object.keys(TOOL_CONFIG)
ToolKeys == <<"essay", "report", "article", "summary", "explanation", "social">>
WritingTool == {ToolKeys[i] : i \in 1..Len(ToolKeys)}

\* TOOL_CONFIG[key].lengths, the values
TOOL_CONFIG ==
    [k \in WritingTool |->
        CASE k = "essay"       -> [lengths |-> <<"short", "medium", "long">>]
          [] k = "report"      -> [lengths |-> <<"brief", "standard", "detailed">>]
          [] k = "article"     -> [lengths |-> <<"short", "medium", "long">>]
          [] k = "summary"     -> [lengths |-> <<"bullet", "paragraph", "detailed">>]
          [] k = "explanation" -> [lengths |-> <<"simple", "moderate", "detailed">>]
          [] k = "social"      -> [lengths |-> <<"tweet", "post", "thread">>]]

\* currentToolConfig.lengths.map(...): the length buttons that are rendered
LengthOptions(k) == {TOOL_CONFIG[k].lengths[i] : i \in 1..Len(TOOL_CONFIG[k].lengths)}

\* the character counter under the textarea: {topic.length}/1000
TopicMax == 1000

-----------------------------------------------------------------------------
(* Inputs *)

\* the tool buttons the user clicks
ToolInputs == {ToolKeys[i] : i \in {j \in 1..Len(ToolKeys) : j <= NumTools}}

\* what the user types into the textarea
TopicInputs ==
    { <<>>,
      <<Run(" ", 2)>>,
      <<Run(" ", 1), Run("\n", 1)>>,
      <<Run("a", 1)>>,
      <<Run(" ", 1), Run("a", 1), Run(" ", 1)>>,
      <<Run("a", 1), Run("/", 1), Run("b", 1)>>,
      <<Run("a", TopicMax)>>,
      <<Run("a", TopicMax + 1)>> }

\* the JSON object of a success response
\* (the text is under the name the endpoint uses: content for /generate, essay
\* for /generate-essay; sources <<>> is a response without sources)
\* (a text is written as in the JSON of the response: "\\uD83D" is the one
\* UTF-16 code unit D83D, a surrogate without its pair, which JSON.parse accepts)
LoneSurrogate == "\\uD83D"
TextInputs == {Undefined, "Lorem ipsum", "Dolor sit", LoneSurrogate}
RestInputs ==
    { [word_count |-> 650, tool_used |-> "report", sources |-> <<"https://example.org">>],
      [word_count |-> 650, tool_used |-> "blog_post", sources |-> <<>>],
      [word_count |-> NumUndefined, tool_used |-> Undefined, sources |-> <<>>] }
DataInputs ==
    {[content |-> t, essay |-> t, word_count |-> r.word_count,
      tool_used |-> r.tool_used, sources |-> r.sources] :
        t \in TextInputs, r \in RestInputs}

\* the status line of a response (a reason phrase, or none as over HTTP/2)
StatusLines ==
    { [status |-> 200, statusText |-> "OK"],
      [status |-> 404, statusText |-> ""],
      [status |-> 500, statusText |-> "Internal Server Error"] }

\* the body of an error response, as res.text() reads it
BodyTexts == {"", "boom"}

\* response.ok
Ok(res) == res.status >= 200 /\ res.status <= 299

\* what a rejected fetch, res.text() or res.json() throws (always an Error)
FetchFaults == {[isError |-> TRUE, message |-> <<"Failed to fetch">>]}
BodyFaults ==
    {[isError |-> TRUE, message |-> <<"Unexpected token < in JSON at position 0">>]}

\* history: how the most recent request settled
NoOutcome == [kind |-> "none"]
Fault(f) == [kind |-> "fault", msg |-> f.message]
HttpStatus(res, text) == [kind |-> "http", res |-> res, text |-> text]
Success(data) == [kind |-> "ok", data |-> data]

\* history: what a step did outside the component, in the order it did it
NoEffects == <<>>
\* fetch(url, { method: 'POST', ..., body: JSON.stringify(body) })
FetchCall(body) == [kind |-> "fetch", body |-> body]

\* navigator.clipboard.writeText(text): written, refused by the browser (the
\* promise rejects, unhandled), or navigator.clipboard is undefined and the
\* call throws
ClipboardOutcomes == {"written", "denied", "unavailable"}
ClipboardWrite(text, how) == [kind |-> "clipboard", text |-> text, how |-> how]

\* a string as a Blob part: a USVString, every surrogate without its pair
\* replaced by U+FFFD, then encoded as UTF-8
ToUSVString(text) == IF text = LoneSurrogate THEN "\\uFFFD" ELSE text
\* (mutant) new Blob([], { type: 'text/plain' }): the part left out
Blob_Empty(text) == [type |-> "text/plain", text |-> ""]
\* new Blob([text], { type: 'text/plain' }), with the text its bytes decode to
Blob(text) == [type |-> "text/plain", text |-> ToUSVString(text)]

\* a file name `${tool}-${stem}${ext}`
FileName(t, s, e) == [tool |-> t, stem |-> s, ext |-> e]
\* link.href = URL.createObjectURL(file); link.download = name; link.click()
Download(file, name) == [kind |-> "download", file |-> file, name |-> name]

\* window.open(...), document.write(html), print(): doc is <<>> when nothing was written
PrintWindow(opened, doc, printed) ==
    [kind |-> "print", opened |-> opened, doc |-> doc, printed |-> printed]

\* a sequence without its i-th element
Without(q, i) == SubSeq(q, 1, i - 1) \o SubSeq(q, i + 1, Len(q))
\* a sequence with its i-th element replaced
Replaced(q, i, x) == [q EXCEPT ![i] = x]

-----------------------------------------------------------------------------
(* AIWritingStudio *)

StudioEmptyTopicMsg == <<"Please enter a topic or text to work with.">>

\* onChange={(e) => setTopic(e.target.value)}
StudioSetTopic ==
    /\ comp = "AIWritingStudio"
    /\ \E t \in TopicInputs : topic' = t
    /\ effects' = NoEffects
    /\ UNCHANGED <<comp, copied, tool, tone, lengthKey, payload, loading, pending, alerts, outcome>>

\* (mutant) the tool button without the reset of the length
StudioSelectTool_NoReset(key) ==
    /\ comp = "AIWritingStudio"
    /\ tool' = key
    /\ effects' = NoEffects
    /\ UNCHANGED <<comp, copied, topic, tone, lengthKey, payload, loading, pending, alerts, outcome>>

\* the tool button: setTool(key); setLengthKey(TOOL_CONFIG[key].lengths[0].value)
StudioSelectTool(key) ==
    /\ comp = "AIWritingStudio"
    /\ tool' = key
    /\ lengthKey' = TOOL_CONFIG[key].lengths[1]
    /\ effects' = NoEffects
    /\ UNCHANGED <<comp, copied, topic, tone, payload, loading, pending, alerts, outcome>>

\* a length button of the current tool: setLengthKey(len.value)
StudioSelectLength(len) ==
    /\ comp = "AIWritingStudio"
    /\ len \in LengthOptions(tool)
    /\ lengthKey' = len
    /\ effects' = NoEffects
    /\ UNCHANGED <<comp, copied, tool, topic, tone, payload, loading, pending, alerts, outcome>>

\* the tone buttons: setTone('academic') / setTone('casual')
StudioSetTone(t) ==
    /\ comp = "AIWritingStudio"
    /\ tone' = t
    /\ effects' = NoEffects
    /\ UNCHANGED <<comp, copied, tool, topic, lengthKey, payload, loading, pending, alerts, outcome>>

\* JSON.stringify({ tool, topic, length: lengthKey, tone })
StudioBody == [tool |-> tool, topic |-> topic, length |-> lengthKey, tone |-> tone]

\* (mutant) the Generate button without the disabled attribute
StudioGenerateEnabled_Always == TRUE
\* the Generate button is rendered with disabled={loading}
StudioGenerateEnabled == ~loading

\* (mutant) if (!topic) ...: the test without the trim
StudioRejects_NoTrim == topic = <<>>

\* if (!topic.trim()) { setError(...); return; }
StudioRejects == Blank(topic)

\* (mutant) handleGenerate that reports the empty topic with alert(), as EssayWriter does
StudioHandleGenerate_Alerts ==
    /\ comp = "AIWritingStudio"
    /\ StudioGenerateEnabled
    /\ IF StudioRejects
       THEN /\ alerts' = TRUE
            /\ effects' = NoEffects
            /\ UNCHANGED <<content, wordCount, toolUsed, loading, error, pending, outcome>>
       ELSE /\ loading' = TRUE
            /\ error' = EmptyMsg
            /\ content' = ""
            /\ wordCount' = 0
            /\ toolUsed' = Null
            /\ pending' = Append(pending, [req |-> StudioBody, pc |-> "fetch"])
            /\ outcome' = NoOutcome
            /\ effects' = <<FetchCall(StudioBody)>>
            /\ UNCHANGED alerts
    /\ UNCHANGED <<comp, copied, selection, sources, result>>

\* (mutant) handleGenerate without setContent('')
StudioHandleGenerate_KeepsContent ==
    /\ comp = "AIWritingStudio"
    /\ StudioGenerateEnabled
    /\ IF StudioRejects
       THEN /\ error' = StudioEmptyTopicMsg
            /\ effects' = NoEffects
            /\ UNCHANGED <<content, wordCount, toolUsed, loading, pending, outcome>>
       ELSE /\ loading' = TRUE
            /\ error' = EmptyMsg
            /\ wordCount' = 0
            /\ toolUsed' = Null
            /\ pending' = Append(pending, [req |-> StudioBody, pc |-> "fetch"])
            /\ outcome' = NoOutcome
            /\ effects' = <<FetchCall(StudioBody)>>
            /\ UNCHANGED content
    /\ UNCHANGED <<comp, copied, selection, sources, result, alerts>>

\* handleGenerate up to its first await
StudioHandleGenerate ==
    /\ comp = "AIWritingStudio"
    /\ StudioGenerateEnabled
    /\ IF StudioRejects
       THEN /\ error' = StudioEmptyTopicMsg
            /\ effects' = NoEffects
            /\ UNCHANGED <<content, wordCount, toolUsed, loading, pending, outcome>>
       ELSE /\ loading' = TRUE
            /\ error' = EmptyMsg
            /\ content' = ""
            /\ wordCount' = 0
            /\ toolUsed' = Null
            /\ pending' = Append(pending, [req |-> StudioBody, pc |-> "fetch"])
            /\ outcome' = NoOutcome
            /\ effects' = <<FetchCall(StudioBody)>>
    /\ UNCHANGED <<comp, copied, selection, sources, result, alerts>>

\* (mutant) the fixed text, whatever was thrown
StudioErrorText_Generic(err) == <<"Something went wrong. Please try again.">>

\* err instanceof Error ? err.message : 'Something went wrong. Please try again.'
StudioErrorText(err) ==
    IF err.isError THEN err.message ELSE <<"Something went wrong. Please try again.">>

\* (mutant) a catch that sends the request again instead of reporting
StudioCatch_Retries(i, err, how) ==
    /\ pending' = Replaced(pending, i, [req |-> pending[i].req, pc |-> "fetch"])
    /\ effects' = <<FetchCall(pending[i].req)>>
    /\ UNCHANGED <<comp, copied, selection, payload, loading, alerts, outcome>>

\* (mutant) the catch without the finally block
StudioCatch_NoFinally(i, err, how) ==
    /\ error' = StudioErrorText(err)
    /\ pending' = Without(pending, i)
    /\ outcome' = how
    /\ effects' = NoEffects
    /\ UNCHANGED <<comp, copied, selection, content, wordCount, toolUsed, sources, result,
                   loading, alerts>>

\* catch (err) { setError(...) } finally { setLoading(false) }
StudioCatch(i, err, how) ==
    /\ error' = StudioErrorText(err)
    /\ loading' = FALSE
    /\ pending' = Without(pending, i)
    /\ outcome' = how
    /\ effects' = NoEffects
    /\ UNCHANGED <<comp, copied, selection, content, wordCount, toolUsed, sources, result, alerts>>

\* await fetch(...) rejects
StudioFetchRejects(i) ==
    /\ comp = "AIWritingStudio"
    /\ pending[i].pc = "fetch"
    /\ \E f \in FetchFaults : StudioCatch(i, f, Fault(f))

\* (mutant) the request read again from the state when the response arrives
StudioFetchResolves_Rebuilds(i) ==
    /\ comp = "AIWritingStudio"
    /\ pending[i].pc = "fetch"
    /\ \E res \in StatusLines :
          pending' = Replaced(pending, i, [req |-> StudioBody, pc |-> "body", res |-> res])
    /\ effects' = NoEffects
    /\ UNCHANGED <<comp, copied, selection, payload, loading, alerts, outcome>>

\* await fetch(...) resolves: the status line has arrived
StudioFetchResolves(i) ==
    /\ comp = "AIWritingStudio"
    /\ pending[i].pc = "fetch"
    /\ \E res \in StatusLines :
          pending' = Replaced(pending, i, [req |-> pending[i].req, pc |-> "body", res |-> res])
    /\ effects' = NoEffects
    /\ UNCHANGED <<comp, copied, selection, payload, loading, alerts, outcome>>

\* new Error(`HTTP ${res.status}: ${text}`)
StudioHttpError(res, text) ==
    [isError |-> TRUE, message |-> <<"HTTP ", ToString(res.status), ": ", text>>]

\* if (!res.ok) { const text = await res.text(); throw new Error(...) }
StudioNotOk(i) ==
    /\ comp = "AIWritingStudio"
    /\ pending[i].pc = "body"
    /\ ~Ok(pending[i].res)
    /\ \E text \in BodyTexts :
          StudioCatch(i, StudioHttpError(pending[i].res, text),
                      HttpStatus(pending[i].res, text))

\* await res.text() or await res.json() rejects
StudioBodyRejects(i) ==
    /\ comp = "AIWritingStudio"
    /\ pending[i].pc = "body"
    /\ \E f \in BodyFaults : StudioCatch(i, f, Fault(f))

\* setContent(data.content || '')
StudioContent(data) == IF Truthy(data.content) THEN data.content ELSE ""
\* (mutant) setWordCount(data.wordCount || 0): a field the response does not have
StudioWordCount_CamelCase(data) == 0
\* setWordCount(data.word_count || 0)
StudioWordCount(data) == IF NumTruthy(data.word_count) THEN data.word_count ELSE 0
\* (mutant) the fallback read from the selection when the response arrives
StudioToolUsed_Current(data, req) == IF Truthy(data.tool_used) THEN data.tool_used ELSE tool
\* setToolUsed(data.tool_used || tool)
StudioToolUsed(data, req) == IF Truthy(data.tool_used) THEN data.tool_used ELSE req.tool

\* const data = await res.json(); the three setters; finally { setLoading(false) }
StudioSuccess(i) ==
    /\ comp = "AIWritingStudio"
    /\ pending[i].pc = "body"
    /\ Ok(pending[i].res)
    /\ \E data \in DataInputs :
         /\ content' = StudioContent(data)
         /\ wordCount' = StudioWordCount(data)
         /\ toolUsed' = StudioToolUsed(data, pending[i].req)
         /\ outcome' = Success(data)
    /\ loading' = FALSE
    /\ pending' = Without(pending, i)
    /\ effects' = NoEffects
    /\ UNCHANGED <<comp, copied, selection, sources, result, error, alerts>>

\* the Copy and .txt buttons are rendered with disabled={!content}, and both
\* handlers start with if (!content) return
StudioExportEnabled == Truthy(content)

\* (mutant) handleCopy that reports a refused or missing clipboard as the error
StudioHandleCopy_Reports ==
    /\ comp = "AIWritingStudio"
    /\ StudioExportEnabled
    /\ \E how \in ClipboardOutcomes :
         /\ effects' = <<ClipboardWrite(content, how)>>
         /\ copied' = (how = "written")
         /\ error' = IF how = "written" THEN error ELSE <<"Could not copy.">>
    /\ UNCHANGED <<comp, selection, content, wordCount, toolUsed, sources, result,
                   loading, pending, alerts, outcome>>

\* handleCopy: navigator.clipboard.writeText(content); setCopied(true); setTimeout(...)
StudioHandleCopy ==
    /\ comp = "AIWritingStudio"
    /\ StudioExportEnabled
    /\ \E how \in ClipboardOutcomes :
         /\ effects' = <<ClipboardWrite(content, how)>>
         /\ copied' = IF how = "unavailable" THEN copied ELSE TRUE
    /\ UNCHANGED <<comp, selection, payload, loading, pending, alerts, outcome>>

\* setTimeout(() => setCopied(false), 1800) fires
StudioCopiedTimeout ==
    /\ comp = "AIWritingStudio"
    /\ copied
    /\ copied' = FALSE
    /\ effects' = NoEffects
    /\ UNCHANGED <<comp, selection, payload, loading, pending, alerts, outcome>>

\* s.replace('_', '-'): the first underscore (of the tool names that occur,
\* blog_post alone has one)
ReplaceUnderscore(s) == IF s = "blog_post" THEN "blog-post" ELSE s

\* const safeTool = (toolUsed || tool).replace('_', '-')
StudioSafeTool == ReplaceUnderscore(IF Truthy(toolUsed) THEN toolUsed ELSE tool)

\* topic.slice(0, 24)
StudioStemMax == 24
\* 'ai-writing'
StudioStemDefault ==
    <<Run("a", 1), Run("i", 1), Run("-", 1), Run("w", 1), Run("r", 1),
      Run("i", 1), Run("t", 1), Run("i", 1), Run("n", 1), Run("g", 1)>>

\* `${safeTool}-${topic.slice(0, 24) || 'ai-writing'}.txt`
StudioFileName ==
    FileName(StudioSafeTool,
             IF Slice(topic, StudioStemMax) # <<>>
             THEN Slice(topic, StudioStemMax) ELSE StudioStemDefault,
             ".txt")

\* handleDownloadTxt
StudioHandleDownloadTxt ==
    /\ comp = "AIWritingStudio"
    /\ StudioExportEnabled
    /\ effects' = <<Download(Blob(content), StudioFileName)>>
    /\ UNCHANGED <<comp, copied, selection, payload, loading, pending, alerts, outcome>>

Studio ==
    \/ StudioSetTopic
    \/ \E key \in ToolInputs : StudioSelectTool(key)
    \/ \E len \in LengthOptions(tool) : StudioSelectLength(len)
    \/ \E t \in {"academic", "casual"} : StudioSetTone(t)
    \/ StudioHandleGenerate
    \/ \E i \in 1..Len(pending) : StudioFetchRejects(i)
    \/ \E i \in 1..Len(pending) : StudioFetchResolves(i)
    \/ \E i \in 1..Len(pending) : StudioNotOk(i)
    \/ \E i \in 1..Len(pending) : StudioBodyRejects(i)
    \/ \E i \in 1..Len(pending) : StudioSuccess(i)
    \/ StudioHandleCopy
    \/ StudioCopiedTimeout
    \/ StudioHandleDownloadTxt

-----------------------------------------------------------------------------
(* EssayGenerator *)

GeneratorEmptyTopicMsg == <<"Please enter a topic">>

\* onChange={(e) => setTopic(e.target.value)}
GeneratorSetTopic ==
    /\ comp = "EssayGenerator"
    /\ \E t \in TopicInputs : topic' = t
    /\ effects' = NoEffects
    /\ UNCHANGED <<comp, copied, tool, tone, lengthKey, payload, loading, pending, alerts, outcome>>

\* the length buttons: setLength(option.value)
GeneratorSetLength(len) ==
    /\ comp = "EssayGenerator"
    /\ lengthKey' = len
    /\ effects' = NoEffects
    /\ UNCHANGED <<comp, copied, tool, topic, tone, payload, loading, pending, alerts, outcome>>

\* the tone buttons: setTone(option.value)
GeneratorSetTone(t) ==
    /\ comp = "EssayGenerator"
    /\ tone' = t
    /\ effects' = NoEffects
    /\ UNCHANGED <<comp, copied, tool, topic, lengthKey, payload, loading, pending, alerts, outcome>>

\* JSON.stringify({ topic, length, tone })
GeneratorBody == [topic |-> topic, length |-> lengthKey, tone |-> tone]

\* the Generate button is rendered with disabled={loading}
GeneratorGenerateEnabled == ~loading

\* if (!topic.trim()) { setError('Please enter a topic'); return; }
GeneratorRejects == Blank(topic)

\* generateEssay up to its first await
GeneratorGenerateEssay ==
    /\ comp = "EssayGenerator"
    /\ GeneratorGenerateEnabled
    /\ IF GeneratorRejects
       THEN /\ error' = GeneratorEmptyTopicMsg
            /\ effects' = NoEffects
            /\ UNCHANGED <<content, wordCount, sources, loading, pending, outcome>>
       ELSE /\ loading' = TRUE
            /\ error' = EmptyMsg
            /\ content' = ""
            /\ sources' = <<>>
            /\ wordCount' = 0
            /\ pending' = Append(pending, [req |-> GeneratorBody, pc |-> "fetch"])
            /\ outcome' = NoOutcome
            /\ effects' = <<FetchCall(GeneratorBody)>>
    /\ UNCHANGED <<comp, copied, selection, toolUsed, result, alerts>>

\* `Failed to generate essay. ${err instanceof Error ? err.message : 'Unknown error'}`
GeneratorErrorText(err) ==
    <<"Failed to generate essay. ">> \o (IF err.isError THEN err.message ELSE <<"Unknown error">>)

\* (mutant) the catch without the finally block
GeneratorCatch_NoFinally(i, err, how) ==
    /\ error' = GeneratorErrorText(err)
    /\ pending' = Without(pending, i)
    /\ outcome' = how
    /\ effects' = NoEffects
    /\ UNCHANGED <<comp, copied, selection, content, wordCount, toolUsed, sources, result,
                   loading, alerts>>

\* catch (err) { setError(...) } finally { setLoading(false) }
GeneratorCatch(i, err, how) ==
    /\ error' = GeneratorErrorText(err)
    /\ loading' = FALSE
    /\ pending' = Without(pending, i)
    /\ outcome' = how
    /\ effects' = NoEffects
    /\ UNCHANGED <<comp, copied, selection, content, wordCount, toolUsed, sources, result, alerts>>

\* await fetch(...) rejects
GeneratorFetchRejects(i) ==
    /\ comp = "EssayGenerator"
    /\ pending[i].pc = "fetch"
    /\ \E f \in FetchFaults : GeneratorCatch(i, f, Fault(f))

\* await fetch(...) resolves: the status line has arrived
GeneratorFetchResolves(i) ==
    /\ comp = "EssayGenerator"
    /\ pending[i].pc = "fetch"
    /\ \E res \in StatusLines :
          pending' = Replaced(pending, i, [req |-> pending[i].req, pc |-> "body", res |-> res])
    /\ effects' = NoEffects
    /\ UNCHANGED <<comp, copied, selection, payload, loading, alerts, outcome>>

\* new Error(`HTTP ${response.status}: ${errorText}`)
GeneratorHttpError(res, text) ==
    [isError |-> TRUE, message |-> <<"HTTP ", ToString(res.status), ": ", text>>]

\* if (!response.ok) { const errorText = await response.text(); throw new Error(...) }
GeneratorNotOk(i) ==
    /\ comp = "EssayGenerator"
    /\ pending[i].pc = "body"
    /\ ~Ok(pending[i].res)
    /\ \E text \in BodyTexts :
          GeneratorCatch(i, GeneratorHttpError(pending[i].res, text),
                         HttpStatus(pending[i].res, text))

\* await response.text() or await response.json() rejects
GeneratorBodyRejects(i) ==
    /\ comp = "EssayGenerator"
    /\ pending[i].pc = "body"
    /\ \E f \in BodyFaults : GeneratorCatch(i, f, Fault(f))

\* setEssay(data.essay)
GeneratorEssay(data) == data.essay
\* setWordCount(data.word_count)
GeneratorWordCount(data) == data.word_count
\* setSources(data.sources || []) (a response without sources holds <<>> already)
GeneratorSources(data) == IF data.sources = <<>> THEN <<>> ELSE data.sources

\* const data = await response.json(); the three setters; finally { setLoading(false) }
GeneratorSuccess(i) ==
    /\ comp = "EssayGenerator"
    /\ pending[i].pc = "body"
    /\ Ok(pending[i].res)
    /\ \E data \in DataInputs :
         /\ content' = GeneratorEssay(data)
         /\ wordCount' = GeneratorWordCount(data)
         /\ sources' = GeneratorSources(data)
         /\ outcome' = Success(data)
    /\ loading' = FALSE
    /\ pending' = Without(pending, i)
    /\ effects' = NoEffects
    /\ UNCHANGED <<comp, copied, selection, toolUsed, result, error, alerts>>

\* the output section with the three export buttons: {essay && (...)}
GeneratorExportEnabled == Truthy(content)

\* copyToClipboard: navigator.clipboard.writeText(essay); setCopied(true); setTimeout(...)
GeneratorCopyToClipboard ==
    /\ comp = "EssayGenerator"
    /\ GeneratorExportEnabled
    /\ \E how \in ClipboardOutcomes :
         /\ effects' = <<ClipboardWrite(content, how)>>
         /\ copied' = IF how = "unavailable" THEN copied ELSE TRUE
    /\ UNCHANGED <<comp, selection, payload, loading, pending, alerts, outcome>>

\* setTimeout(() => setCopied(false), 2000) fires
GeneratorCopiedTimeout ==
    /\ comp = "EssayGenerator"
    /\ copied
    /\ copied' = FALSE
    /\ effects' = NoEffects
    /\ UNCHANGED <<comp, selection, payload, loading, pending, alerts, outcome>>

\* htmlContent: the values the template interpolates
GeneratorHtml ==
    [title |-> topic, wordCount |-> wordCount, length |-> lengthKey, tone |-> tone,
     essay |-> content, sources |-> sources]

\* (mutant) downloadAsPDF that reports a window that did not open as the error
GeneratorDownloadAsPDF_Reports ==
    /\ comp = "EssayGenerator"
    /\ GeneratorExportEnabled
    /\ \E opened \in BOOLEAN :
         IF ~opened
         THEN /\ effects' = <<PrintWindow(FALSE, <<>>, FALSE)>>
              /\ error' = <<"Please allow pop-ups to print.">>
         ELSE /\ \E printed \in BOOLEAN :
                    effects' = <<PrintWindow(TRUE, <<GeneratorHtml>>, printed)>>
              /\ UNCHANGED error
    /\ UNCHANGED <<comp, copied, selection, content, wordCount, toolUsed, sources, result,
                   loading, pending, alerts, outcome>>

\* downloadAsPDF: const printWindow = window.open(...); if (!printWindow) return;
\* document.write(htmlContent); print() in the onload handler, which is set
\* after document.close() and so may or may not run
GeneratorDownloadAsPDF ==
    /\ comp = "EssayGenerator"
    /\ GeneratorExportEnabled
    /\ \E opened \in BOOLEAN :
         IF ~opened
         THEN effects' = <<PrintWindow(FALSE, <<>>, FALSE)>>
         ELSE \E printed \in BOOLEAN :
                 effects' = <<PrintWindow(TRUE, <<GeneratorHtml>>, printed)>>
    /\ UNCHANGED <<comp, copied, selection, payload, loading, pending, alerts, outcome>>

\* topic.substring(0, 20)
GeneratorStemMax == 20

\* `essay-${topic.substring(0, 20)}.txt`
GeneratorFileName == FileName("essay", Slice(topic, GeneratorStemMax), ".txt")

\* downloadAsText
GeneratorDownloadAsText ==
    /\ comp = "EssayGenerator"
    /\ GeneratorExportEnabled
    /\ effects' = <<Download(Blob(content), GeneratorFileName)>>
    /\ UNCHANGED <<comp, copied, selection, payload, loading, pending, alerts, outcome>>

Generator ==
    \/ GeneratorSetTopic
    \/ \E len \in {"short", "medium", "long"} : GeneratorSetLength(len)
    \/ \E t \in {"academic", "casual", "persuasive"} : GeneratorSetTone(t)
    \/ GeneratorGenerateEssay
    \/ \E i \in 1..Len(pending) : GeneratorFetchRejects(i)
    \/ \E i \in 1..Len(pending) : GeneratorFetchResolves(i)
    \/ \E i \in 1..Len(pending) : GeneratorNotOk(i)
    \/ \E i \in 1..Len(pending) : GeneratorBodyRejects(i)
    \/ \E i \in 1..Len(pending) : GeneratorSuccess(i)
    \/ GeneratorCopyToClipboard
    \/ GeneratorCopiedTimeout
    \/ GeneratorDownloadAsPDF
    \/ GeneratorDownloadAsText

-----------------------------------------------------------------------------
(* EssayWriter: the handler of src/Frontend/app/page.tsx ("EssayWriter") and  *)
(* the handler of src/unnamed/part_002 ("EssayWriterBasic"). The markup of    *)
(* page.tsx is not part of the sources; both are driven through the markup of *)
(* part_002, the same component's.                                             *)

IsWriter == comp \in {"EssayWriter", "EssayWriterBasic"}

\* <textarea ... onChange={(e) => setTopic(e.target.value)} disabled={loading} />
WriterSetTopic ==
    /\ IsWriter
    /\ ~loading
    /\ \E t \in TopicInputs : topic' = t
    /\ effects' = NoEffects
    /\ UNCHANGED <<comp, copied, tool, tone, lengthKey, payload, loading, pending, alerts, outcome>>

\* the Generate button is rendered with disabled={loading || !topic.trim()}
WriterGenerateEnabled == ~(loading \/ Blank(topic))

\* page.tsx: { topic: topic.trim(), pdf: includePdf, word_length: wordLength ? ... : null }
\* (includePdf and wordLength hold their initial values false and '')
WriterBody == [topic |-> Trim(topic), pdf |-> FALSE, word_length |-> Null]

\* part_002: { topic: topic.trim(), pdf: false, word_length: null }
BasicBody == [topic |-> Trim(topic), pdf |-> FALSE, word_length |-> Null]

\* if (!topic.trim()) { alert('Please enter a topic!'); return; }
WriterRejects == Blank(topic)

\* handleGenerate up to its first await
WriterHandleGenerate ==
    /\ IsWriter
    /\ WriterGenerateEnabled
    /\ IF WriterRejects
       THEN /\ alerts' = TRUE
            /\ effects' = NoEffects
            /\ UNCHANGED <<result, error, loading, pending, outcome>>
       ELSE /\ loading' = TRUE
            /\ error' = EmptyMsg
            /\ result' = <<>>
            /\ pending' = Append(pending,
                 [req |-> IF comp = "EssayWriter" THEN WriterBody ELSE BasicBody,
                  pc |-> "fetch"])
            /\ outcome' = NoOutcome
            /\ effects' = <<FetchCall(IF comp = "EssayWriter" THEN WriterBody ELSE BasicBody)>>
            /\ UNCHANGED alerts
    /\ UNCHANGED <<comp, copied, selection, content, wordCount, toolUsed, sources>>

\* page.tsx: error?.message || 'Failed to generate essay. Please try again.'
WriterErrorText(err) ==
    IF MsgTruthy(err.message) THEN err.message
    ELSE <<"Failed to generate essay. Please try again.">>

\* part_002: error?.message || 'Failed to generate essay'
BasicErrorText(err) ==
    IF MsgTruthy(err.message) THEN err.message ELSE <<"Failed to generate essay">>

\* catch (error) { setError(...) } finally { setLoading(false) }
WriterCatch(i, err, how) ==
    /\ error' = IF comp = "EssayWriter" THEN WriterErrorText(err) ELSE BasicErrorText(err)
    /\ loading' = FALSE
    /\ pending' = Without(pending, i)
    /\ outcome' = how
    /\ effects' = NoEffects
    /\ UNCHANGED <<comp, copied, selection, content, wordCount, toolUsed, sources, result, alerts>>

\* await fetch(...) rejects
WriterFetchRejects(i) ==
    /\ IsWriter
    /\ pending[i].pc = "fetch"
    /\ \E f \in FetchFaults : WriterCatch(i, f, Fault(f))

\* page.tsx: throw new Error(`Error: ${response.statusText}`)
WriterHttpError(res) == [isError |-> TRUE, message |-> <<"Error: ", res.statusText>>]

\* part_002: throw new Error('Failed to generate essay')
BasicHttpError(res) == [isError |-> TRUE, message |-> <<"Failed to generate essay">>]

\* await fetch(...) resolves; if (!response.ok) { throw new Error(...) }
\* (the body of the error response is never read)
WriterFetchResolves(i) ==
    /\ IsWriter
    /\ pending[i].pc = "fetch"
    /\ \E res \in StatusLines :
          IF Ok(res)
          THEN /\ pending' = Replaced(pending, i,
                                [req |-> pending[i].req, pc |-> "body", res |-> res])
               /\ effects' = NoEffects
               /\ UNCHANGED <<comp, copied, selection, payload, loading, alerts, outcome>>
          ELSE \E text \in BodyTexts :
                  WriterCatch(i,
                      IF comp = "EssayWriter" THEN WriterHttpError(res) ELSE BasicHttpError(res),
                      HttpStatus(res, text))

\* await response.json() rejects
WriterBodyRejects(i) ==
    /\ IsWriter
    /\ pending[i].pc = "body"
    /\ \E f \in BodyFaults : WriterCatch(i, f, Fault(f))

\* const data = await response.json(); setResult(data); finally { setLoading(false) }
WriterSuccess(i) ==
    /\ IsWriter
    /\ pending[i].pc = "body"
    /\ \E data \in DataInputs :
         /\ result' = <<data>>
         /\ outcome' = Success(data)
    /\ loading' = FALSE
    /\ pending' = Without(pending, i)
    /\ effects' = NoEffects
    /\ UNCHANGED <<comp, copied, selection, content, wordCount, toolUsed, sources, error, alerts>>

Writer ==
    \/ WriterSetTopic
    \/ WriterHandleGenerate
    \/ \E i \in 1..Len(pending) : WriterFetchRejects(i)
    \/ \E i \in 1..Len(pending) : WriterFetchResolves(i)
    \/ \E i \in 1..Len(pending) : WriterBodyRejects(i)
    \/ \E i \in 1..Len(pending) : WriterSuccess(i)

-----------------------------------------------------------------------------

Components == {"AIWritingStudio", "EssayGenerator", "EssayWriter", "EssayWriterBasic"}

Init ==
    /\ comp \in Components
    /\ tool = "essay"
    /\ topic = <<>>
    /\ tone = "academic"
    /\ lengthKey = "medium"
    /\ content = ""
    /\ wordCount = 0
    /\ toolUsed = Null
    /\ sources = <<>>
    /\ result = <<>>
    /\ loading = FALSE
    /\ error = EmptyMsg
    /\ pending = <<>>
    /\ alerts = FALSE
    /\ copied = FALSE
    /\ outcome = NoOutcome
    /\ effects = NoEffects

Next == Studio \/ Generator \/ Writer

Spec == Init /\ [][Next]_vars

\* the network answers a request in flight: the promise a handler awaits
\* (fetch, res.text(), res.json()) settles and the handler runs on
Network ==
    \E i \in 1..Len(pending) :
        \/ StudioFetchRejects(i) \/ StudioFetchResolves(i) \/ StudioNotOk(i)
        \/ StudioBodyRejects(i) \/ StudioSuccess(i)
        \/ GeneratorFetchRejects(i) \/ GeneratorFetchResolves(i) \/ GeneratorNotOk(i)
        \/ GeneratorBodyRejects(i) \/ GeneratorSuccess(i)
        \/ WriterFetchRejects(i) \/ WriterFetchResolves(i)
        \/ WriterBodyRejects(i) \/ WriterSuccess(i)

\* every awaited promise settles in the end, and the event loop then runs the
\* rest of the handler
FairSpec == Spec /\ WF_vars(Network)

-----------------------------------------------------------------------------
(* Properties *)

\* a click on the Generate control that runs the submit handler
Submit == StudioHandleGenerate \/ GeneratorGenerateEssay \/ WriterHandleGenerate

\* the message the component shows for an empty topic
EmptyTopic ==
    IF comp = "AIWritingStudio" THEN StudioEmptyTopicMsg ELSE GeneratorEmptyTopicMsg

\* a Success payload is held / a Failure payload is held
HasResult == Truthy(content) \/ result # <<>>
HasError == MsgTruthy(error)

\* this step settles a request, with the outcome recorded in outcome'
Settles == outcome' # outcome /\ outcome'.kind # "none"

\* C2: in AIWritingStudio the selected length is always one of the selected
\* tool's length options, and a step that changes the tool leaves the length at
\* the first option of the new tool.
C2_LengthBelongsToTool ==
    [][comp = "AIWritingStudio" =>
         /\ lengthKey \in LengthOptions(tool)
         /\ lengthKey' \in LengthOptions(tool')
         /\ (tool' # tool => lengthKey' = TOOL_CONFIG[tool'].lengths[1])]_vars

\* C2 witness: after a switch to report and a length selection there
C2_Witness == comp = "AIWritingStudio" /\ tool = "report" /\ lengthKey = "standard"

\* C3: a submit whose topic is empty after trimming issues no request and does
\* not set loading.
C3_EmptyTopicIssuesNothing ==
    [][Submit /\ Blank(topic) => pending' = pending /\ ~loading']_vars

\* C3 witness: an empty submit has been rejected and nothing is in flight
C3_Witness ==
    /\ comp = "EssayGenerator"
    /\ error = GeneratorEmptyTopicMsg
    /\ Blank(topic)
    /\ pending = <<>>
    /\ ~loading

C5_TopicTooLongRejected ==
    \A i \in 1..Len(pending) : StrLen(pending[i].req.topic) <= TopicMax

\* C7: a Success payload and a Failure payload are never held together, and
\* neither is held while a request is in flight.
C7_ExactlyOneVariant ==
    /\ ~(HasResult /\ HasError)
    /\ loading => ~HasResult /\ ~HasError

\* C8: while a request is in flight (loading is true, or a handler is
\* suspended on its request) the previous payload is gone: content is empty,
\* the word count 0, toolUsed null, the sources and the result empty and the
\* error empty.
C8_InFlightClearsPayload ==
    (loading \/ pending # <<>>) =>
        /\ content = ""
        /\ wordCount = 0
        /\ toolUsed = Null
        /\ sources = <<>>
        /\ result = <<>>
        /\ error = EmptyMsg

\* C8 witness: a request is in flight, its response under way, the topic edited since
C8_Witness ==
    /\ comp = "AIWritingStudio"
    /\ loading
    /\ Len(pending) = 1
    /\ pending[1].pc = "body"
    /\ pending[1].req.topic # topic

\* C9: a response with a status outside 200..299 ends in Failure, the error
\* carrying the status code and the response body, with no result.
C9_HttpStatusCarried ==
    [][Settles /\ outcome'.kind = "http" =>
         /\ ~loading'
         /\ HasError'
         /\ ~HasResult'
         /\ Carries(error', ToString(outcome'.res.status))
         /\ Carries(error', outcome'.text)]_vars

\* C10: a fault of the transport (fetch rejects, the body cannot be read or
\* parsed) ends the in-flight state in Failure, the error carrying the
\* fault's message, with no result.
C10_FaultMessageCarried ==
    [][Settles /\ outcome'.kind = "fault" =>
         /\ ~loading'
         /\ HasError'
         /\ ~HasResult'
         /\ \A k \in 1..Len(outcome'.msg) : Carries(error', outcome'.msg[k])]_vars

\* C10 witness: the body of a success response did not parse
C10_Witness ==
    /\ comp = "EssayGenerator"
    /\ outcome.kind = "fault"
    /\ ~loading
    /\ error = <<"Failed to generate essay. ", "Unexpected token < in JSON at position 0">>

\* C11: a success response without the text field settles as Success with the
\* empty string as the body, not undefined, and with no error (AIWritingStudio
\* and EssayGenerator, the text being data.content and data.essay).
C11_MissingTextIsEmpty ==
    [][/\ Settles
       /\ outcome'.kind = "ok"
       /\ ~IsWriter
       /\ (IF comp = "AIWritingStudio" THEN outcome'.data.content ELSE outcome'.data.essay)
              = Undefined
       => /\ ~loading'
          /\ ~HasError'
          /\ content' = ""]_vars

\* C12: in AIWritingStudio the request a submit issues carries exactly the
\* tool, topic, length and tone selected at that moment, and a request in
\* flight keeps them whatever is selected afterwards.
C12_RequestCarriesSelection ==
    [][comp = "AIWritingStudio" =>
         /\ (Len(pending') = Len(pending) + 1 =>
               /\ pending'[Len(pending')].req =
                     [tool |-> tool, topic |-> topic, length |-> lengthKey, tone |-> tone]
               /\ effects' = <<[kind |-> "fetch", body |-> pending'[Len(pending')].req]>>)
         /\ (Len(pending') = Len(pending) =>
               \A i \in 1..Len(pending) : pending'[i].req = pending[i].req)]_vars

\* C12 witness: the response is under way and the tool, the topic and the
\* tone have all been changed since the submit
C12_Witness ==
    /\ comp = "AIWritingStudio"
    /\ Len(pending) = 1
    /\ pending[1].pc = "body"
    /\ pending[1].req = [tool |-> "essay", topic |-> <<Run("a", 1)>>,
                         length |-> "medium", tone |-> "academic"]
    /\ tool = "report"
    /\ topic = <<>>
    /\ tone = "casual"

\* the number of calls to fetch among the effects of a step
Calls(e) == Len(SelectSeq(e, LAMBDA x : x.kind = "fetch"))

\* C13: a submit that passes validation calls fetch exactly once and puts
\* exactly one request in flight; no other step (a failure settling, an edit,
\* an export) calls fetch or puts a request in flight, so the calls issued are
\* as many as the submits that passed validation.
C13_OneCallPerAcceptedSubmit ==
    [][IF Submit /\ ~Blank(topic)
       THEN Calls(effects') = 1 /\ Len(pending') = Len(pending) + 1
       ELSE Calls(effects') = 0 /\ Len(pending') <= Len(pending)]_vars

\* C13 witness: the one call of a submit has faulted, the Failure is shown and
\* nothing has been sent since
C13_Witness ==
    /\ comp = "AIWritingStudio"
    /\ outcome.kind = "fault"
    /\ HasError
    /\ ~Blank(topic)
    /\ pending = <<>>
    /\ Calls(effects) = 0

\* a resolved state: nothing is in flight and a request has settled (Success
\* or Failure from the service) or an error is shown (Failure from validation)
Resolved == pending = <<>> /\ (outcome.kind # "none" \/ HasError)

\* C14: in every resolved state loading is false and the Generate control
\* takes a new submit as it stands, which runs the handler from its validation
\* (in EssayWriter the control is the validation of the empty topic: it is
\* enabled exactly when the topic is not blank).
C14_ResolvedAcceptsSubmit ==
    Resolved =>
        /\ ~loading
        /\ (IsWriter => (WriterGenerateEnabled <=> ~Blank(topic)))
        /\ (~IsWriter \/ ~Blank(topic) => ENABLED Submit)

\* C14 witness: a Failure from the service is shown and the control is enabled
C14_Witness ==
    /\ comp = "AIWritingStudio"
    /\ Resolved
    /\ outcome.kind = "http"
    /\ HasError
    /\ StudioGenerateEnabled

\* C15: a request that settles in Success leaves a result made of that
\* response alone: the text, the word count (650 for word_count 650), the tool
\* identifier and the sources the response carries are the ones held, a field
\* the response lacks is held as its default or as undefined, and in
\* EssayWriter the result is the response itself.
C15_SuccessReplacesResult ==
    [][Settles /\ outcome'.kind = "ok" =>
         LET data == outcome'.data
             text == IF comp = "AIWritingStudio" THEN data.content ELSE data.essay
         IN  IF IsWriter
             THEN result' = <<data>>
             ELSE /\ (text # Undefined => content' = text)
                  /\ (text = Undefined => content' \in {"", Undefined})
                  /\ (data.word_count # NumUndefined => wordCount' = data.word_count)
                  /\ (data.word_count = NumUndefined => wordCount' \in {0, NumUndefined})
                  /\ (comp = "AIWritingStudio" /\ data.tool_used # Undefined
                        => toolUsed' = data.tool_used)
                  /\ (comp = "EssayGenerator" => sources' = data.sources)]_vars

\* C15 witness: a response with word_count 650 has settled in AIWritingStudio
C15_Witness ==
    /\ comp = "AIWritingStudio"
    /\ outcome.kind = "ok"
    /\ outcome.data.word_count = 650
    /\ wordCount = 650
    /\ content = "Dolor sit"
    /\ toolUsed = "report"

\* the effects of a step that are exports of the given kind
Exported(e, kind) == SelectSeq(e, LAMBDA x : x.kind = kind)
\* this step is an export: a clipboard copy, a text download or a print
Exports ==
    \E k \in 1..Len(effects') : effects'[k].kind \in {"clipboard", "download", "print"}

\* C16: an export step (clipboard copy, text download, print/PDF), whether
\* it succeeds or fails, leaves loading, content, wordCount, toolUsed, error,
\* the sources, the result, the requests in flight and the tool, topic, tone
\* and length selections as they were.
C16_ExportKeepsLifecycle ==
    [][Exports =>
         UNCHANGED <<loading, content, wordCount, toolUsed, error, sources, result,
                     pending, tool, topic, tone, lengthKey>>]_vars

\* C16 witness: a copy the browser refused, after a Success
C16_Witness ==
    /\ comp = "AIWritingStudio"
    /\ effects = <<ClipboardWrite("Lorem ipsum", "denied")>>
    /\ content = "Lorem ipsum"
    /\ copied
    /\ ~loading
    /\ ~HasError

\* C17 (as claimed): the text of the downloaded file is the content held.
C17_TextFileRoundTrip ==
    \A k \in 1..Len(effects) :
        effects[k].kind = "download" => effects[k].file.text = content

\* a text without a surrogate that lacks its pair
WellFormed(text) == text # LoneSurrogate

\* C17 (amended): the text of the downloaded file is the content held,
\* whenever the content is well-formed UTF-16.
C17_WellFormedRoundTrip ==
    \A k \in 1..Len(effects) :
        effects[k].kind = "download" /\ WellFormed(content)
            => effects[k].file.text = content /\ effects[k].file.type = "text/plain"

\* C17 witness: a generated text has been downloaded as a file
C17_Witness ==
    /\ comp = "EssayGenerator"
    /\ content = "Dolor sit"
    /\ Len(Exported(effects, "download")) = 1
    /\ effects[1].file.text = "Dolor sit"

\* characters that cannot stand in a file name
PathUnsafe == {"/", "\\", ":", "*", "?", "\"", "<", ">", "|"}

\* C18: the name of a downloaded text file has a stem that is a prefix of the
\* topic of bounded length (or the default stem for an empty topic), has no
\* path-unsafe character in it whatever the topic contains, and ends in .txt.
C18_FileNameSafe ==
    \A k \in 1..Len(effects) :
        effects[k].kind = "download" =>
            LET name == effects[k].name
            IN  /\ name.ext = ".txt"
                /\ StrLen(name.stem) <= StudioStemMax
                /\ \/ name.stem = Slice(topic, StrLen(name.stem))
                   \/ topic = <<>> /\ name.stem = StudioStemDefault
                /\ \A j \in 1..Len(name.stem) : name.stem[j].ch \notin PathUnsafe

\* C19: when window.open gives no window, the print/PDF export writes no
\* document and prints nothing, sets no error and leaves every state of the
\* component as it was.
C19_BlockedPrintIsNoOp ==
    [][\A k \in 1..Len(effects') :
          effects'[k].kind = "print" /\ ~effects'[k].opened =>
              /\ effects'[k].doc = <<>>
              /\ ~effects'[k].printed
              /\ Len(effects') = 1
              /\ UNCHANGED <<comp, selection, payload, loading, pending, alerts, copied,
                             outcome>>]_vars

\* C19 witness: the PDF button was clicked after a Success and no window opened
C19_Witness ==
    /\ comp = "EssayGenerator"
    /\ Truthy(content)
    /\ effects = <<PrintWindow(FALSE, <<>>, FALSE)>>
    /\ ~HasError
    /\ ~loading

\* C20: under FairSpec (each awaited promise settles, by a response or by a
\* fault) a component that is loading comes to a state where loading is false
\* and the request has settled, in Success or in Failure with its error shown.
C20_EventuallyResolves ==
    loading ~>
        /\ ~loading
        /\ \/ outcome.kind = "ok"
           \/ outcome.kind \in {"http", "fault"} /\ HasError

\* C20 witness: a request of EssayGenerator has settled on an error status and
\* loading is false again
C20_Witness ==
    /\ comp = "EssayGenerator"
    /\ ~loading
    /\ pending = <<>>
    /\ outcome.kind = "http"
    /\ outcome.res.status = 500
    /\ HasError

\* C21: while loading is true no submit step is enabled, loading is true
\* whenever a request is outstanding, and at most one request is outstanding.
C21_AtMostOneInFlight ==
    /\ loading => ~ENABLED Submit
    /\ pending # <<>> => loading
    /\ Len(pending) <= 1

\* C21 witness: a request is outstanding, the topic would pass validation
\* and the Generate control is disabled
C21_Witness ==
    /\ comp = "EssayGenerator"
    /\ loading
    /\ Len(pending) = 1
    /\ pending[1].pc = "fetch"
    /\ ~Blank(topic)
    /\ ~GeneratorGenerateEnabled

\* C22: in AIWritingStudio a success response without tool_used leaves as
\* toolUsed the tool of the request that settled, the one selected at the
\* submit, whatever tool is selected when the response arrives.
C22_ToolUsedFallsBackToSubmitted ==
    [][/\ comp = "AIWritingStudio"
       /\ Settles
       /\ outcome'.kind = "ok"
       /\ outcome'.data.tool_used = Undefined
       => \E i \in 1..Len(pending) :
             /\ pending' = Without(pending, i)
             /\ toolUsed' = pending[i].req.tool]_vars

\* C22 witness: a response without tool_used has settled, the tool recorded
\* is essay and the tool selected is report
C22_Witness ==
    /\ comp = "AIWritingStudio"
    /\ outcome.kind = "ok"
    /\ outcome.data.tool_used = Undefined
    /\ Truthy(content)
    /\ toolUsed = "essay"
    /\ tool = "report"

\* C23: in AIWritingStudio toolUsed is null or a key of TOOL_CONFIG, so that
\* TOOL_CONFIG[toolUsed] in the output header is defined.
C23_ToolUsedInRegistry ==
    comp = "AIWritingStudio" => toolUsed = Null \/ toolUsed \in WritingTool

====
